---------------------------- MODULE Spec2Model ----------------------------
(***************************************************************************)
(* A model of the Lox scanner of src/src/scanner.rs.                       *)
(*                                                                         *)
(* The source text is a sequence of characters (Unicode scalar values),    *)
(* each written as a one-character string; U+00E9 stands for a character   *)
(* whose UTF-8 encoding is two bytes long.  The Scanner struct is the      *)
(* record `self`; every method of the scanner is an operator on that       *)
(* record, and every loop of the scanner is an action that performs one    *)
(* iteration of it.                                                        *)
(***************************************************************************)
EXTENDS Integers, Sequences, FiniteSets

\* ------------------------------------------------------------ characters

NL == "\n"
QUOTE == "\""
NonAscii == "U+00E9"

\* Option::None, as returned by next() and peek() at the end of the input.
None == "None"

Digits == {"0", "1", "2", "3", "4", "5", "6", "7", "8", "9"}

Lower ==
    {"a", "b", "c", "d", "e", "f", "g", "h", "i", "j", "k", "l", "m",
     "n", "o", "p", "q", "r", "s", "t", "u", "v", "w", "x", "y", "z"}

Upper ==
    {"A", "B", "C", "D", "E", "F", "G", "H", "I", "J", "K", "L", "M",
     "N", "O", "P", "Q", "R", "S", "T", "U", "V", "W", "X", "Y", "Z"}

is_digit(c) == c \in Digits

\* A scanner that takes every alphabetic character for a letter.
is_alpha_unicode(c) == c \in Lower \cup Upper \cup {"_", NonAscii}

is_alpha(c) == c \in Lower \cup Upper \cup {"_"}

is_alpha_numeric(c) == is_alpha(c) \/ is_digit(c)

\* char::len_utf8: the number of bytes of a character in the source buffer.
len_utf8(c) == IF c = NonAscii THEN 2 ELSE 1

\* ------------------------------------------------------- bounded inputs

MaxLen == 3
MaxCommentLen == 10
MaxStringLen == 5
MaxNumberLen == 6
MaxWordLen == 4
MaxOperatorLen == 3
MaxBlankLen == 3

\* One character of every class the match of scan_tokens tells apart, and
\* the two-byte character.
Alphabet ==
    {".", "=", "/", "*", QUOTE, NL, " ", "1", "o", "@", NonAscii}

\* Block comments, nested ones among them.
CommentAlphabet == {"/", "*"}

\* String literals, with newlines, backslashes and two-byte characters.
StringAlphabet == {QUOTE, NL, "\\", NonAscii}

\* Number literals.
NumberAlphabet == {"1", "2", "."}

\* Identifiers and the reserved word "or".
WordAlphabet == {"o", "r", "O", "1", "_"}

\* The operators that may be followed by "=".
OperatorAlphabet == {"!", "=", "<", ">"}
BlankAlphabet == {" ", "\r", "\t", NL, "/", "*", "o"}

RECURSIVE SeqsOfLen(_, _)
SeqsOfLen(S, n) ==
    IF n = 0 THEN {<<>>}
    ELSE {Append(t, c) : t \in SeqsOfLen(S, n - 1), c \in S}

SeqsUpTo(S, n) == UNION {SeqsOfLen(S, k) : k \in 0..n}

\* A line comment that holds a two-byte character, and its newline.
MultibyteLine == <<"/", "/", NonAscii, NL>>

Sources ==
    SeqsUpTo(Alphabet, MaxLen)
        \cup {MultibyteLine \o t : t \in SeqsUpTo(Alphabet, MaxLen)}
        \cup SeqsUpTo(CommentAlphabet, MaxCommentLen)
        \cup SeqsUpTo(StringAlphabet, MaxStringLen)
        \cup SeqsUpTo(NumberAlphabet, MaxNumberLen)
        \cup SeqsUpTo(WordAlphabet, MaxWordLen)
        \cup SeqsUpTo(OperatorAlphabet, MaxOperatorLen)
        \cup SeqsUpTo(BlankAlphabet, MaxBlankLen)

\* ------------------------------------------------- string slices, parse

\* The byte offset of the character with (0-based) index i of text; for
\* i = Len(text) the length of text in bytes.
RECURSIVE ByteOffset(_, _)
ByteOffset(text, i) ==
    IF i = 0 THEN 0 ELSE ByteOffset(text, i - 1) + len_utf8(text[i])

\* str::is_char_boundary
is_char_boundary(text, n) ==
    \E i \in 0..Len(text) : ByteOffset(text, i) = n

CharIndex(text, n) ==
    CHOOSE i \in 0..Len(text) : ByteOffset(text, i) = n

\* &text[a..b]: the range is in bytes; it panics unless a <= b and both
\* ends are character boundaries of text (the end of text is one).
slice(text, a, b) ==
    IF a <= b /\ is_char_boundary(text, a) /\ is_char_boundary(text, b)
    THEN [ok |-> TRUE,
          text |-> SubSeq(text, CharIndex(text, a) + 1, CharIndex(text, b))]
    ELSE [ok |-> FALSE, text |-> <<>>]

IsDigitRun(t) == \A i \in 1..Len(t) : is_digit(t[i])

RECURSIVE StripLeadingZeros(_)
StripLeadingZeros(t) ==
    IF Len(t) > 1 /\ t[1] = "0" THEN StripLeadingZeros(Tail(t)) ELSE t

RECURSIVE StripTrailingZeros(_)
StripTrailingZeros(t) ==
    IF Len(t) > 0 /\ t[Len(t)] = "0"
    THEN StripTrailingZeros(SubSeq(t, 1, Len(t) - 1))
    ELSE t

\* The f64 a decimal literal denotes, written canonically: no sign "+", no
\* leading zero but one, no trailing zero of the fraction, no "." before an
\* empty fraction.  Literals of at most 15 digits are told apart exactly.
Decimal(neg, whole, frac) ==
    LET w == StripLeadingZeros(IF whole = <<>> THEN <<"0">> ELSE whole)
        f == StripTrailingZeros(frac)
    IN  (IF neg THEN <<"-">> ELSE <<>>)
            \o w \o (IF f = <<>> THEN <<>> ELSE <<".">> \o f)

\* str::parse::<f64>: [sign] (digits | digits "." [digits] | [digits] "." digits).
\* The other forms f64 accepts (an exponent, inf, infinity, nan) need one of
\* the letters e, E, i, n, a, f, t, y, which no bounded input contains.
parse_f64(t) ==
    LET signed == Len(t) > 0 /\ t[1] \in {"+", "-"}
        body == IF signed THEN Tail(t) ELSE t
        dots == {i \in 1..Len(body) : body[i] = "."}
        dot == IF dots = {} THEN Len(body) + 1
               ELSE CHOOSE i \in dots : \A j \in dots : i <= j
        whole == SubSeq(body, 1, dot - 1)
        frac == SubSeq(body, dot + 1, Len(body))
    IN  IF IsDigitRun(whole) /\ IsDigitRun(frac) /\ Len(whole) + Len(frac) > 0
        THEN [ok |-> TRUE,
              value |-> Decimal(signed /\ t[1] = "-", whole, frac)]
        ELSE [ok |-> FALSE, value |-> <<>>]

\* ------------------------------------------------------------ token kinds

\* A TokenKind without payload.
Simple(kind) == [kind |-> kind, value |-> <<>>]

\* A literal-carrying TokenKind: String(text), Number(value), Identifier(name).
Literal(kind, value) == [kind |-> kind, value |-> value]

Punctuation ==
    [c \in {"(", ")", "{", "}", ",", ".", "-", "+", ";", "*"} |->
        CASE c = "(" -> "LeftParen"
          [] c = ")" -> "RightParen"
          [] c = "{" -> "LeftBrace"
          [] c = "}" -> "RightBrace"
          [] c = "," -> "Comma"
          [] c = "." -> "Dot"
          [] c = "-" -> "Minus"
          [] c = "+" -> "Plus"
          [] c = ";" -> "Semicolon"
          [] c = "*" -> "Star"]

\* The operators that may be followed by "=": the one-character kind and
\* the two-character kind.
Operators ==
    [c \in {"!", "=", "<", ">"} |->
        CASE c = "!" -> <<"Bang", "BangEqual">>
          [] c = "=" -> <<"Equal", "EqualEqual">>
          [] c = "<" -> <<"Less", "LessEqual">>
          [] c = ">" -> <<"Greater", "GreaterEqual">>]

Keywords ==
    [w \in {<<"a", "n", "d">>, <<"c", "l", "a", "s", "s">>,
            <<"e", "l", "s", "e">>, <<"f", "a", "l", "s", "e">>,
            <<"f", "o", "r">>, <<"f", "u", "n">>, <<"i", "f">>,
            <<"n", "i", "l">>, <<"o", "r">>, <<"p", "r", "i", "n", "t">>,
            <<"r", "e", "t", "u", "r", "n">>, <<"s", "u", "p", "e", "r">>,
            <<"t", "h", "i", "s">>, <<"t", "r", "u", "e">>,
            <<"v", "a", "r">>, <<"w", "h", "i", "l", "e">>} |->
        CASE w = <<"a", "n", "d">> -> "And"
          [] w = <<"c", "l", "a", "s", "s">> -> "Class"
          [] w = <<"e", "l", "s", "e">> -> "Else"
          [] w = <<"f", "a", "l", "s", "e">> -> "False"
          [] w = <<"f", "o", "r">> -> "For"
          [] w = <<"f", "u", "n">> -> "Fun"
          [] w = <<"i", "f">> -> "If"
          [] w = <<"n", "i", "l">> -> "Nil"
          [] w = <<"o", "r">> -> "Or"
          [] w = <<"p", "r", "i", "n", "t">> -> "Print"
          [] w = <<"r", "e", "t", "u", "r", "n">> -> "Return"
          [] w = <<"s", "u", "p", "e", "r">> -> "Super"
          [] w = <<"t", "h", "i", "s">> -> "This"
          [] w = <<"t", "r", "u", "e">> -> "True"
          [] w = <<"v", "a", "r">> -> "Var"
          [] w = <<"w", "h", "i", "l", "e">> -> "While"]

\* The match of scan_identifier on the lexeme text.
keyword_or_identifier(value) ==
    IF value \in DOMAIN Keywords
    THEN Simple(Keywords[value])
    ELSE Literal("Identifier", value)

\* ------------------------------------------------------------- the state

VARIABLES
    self,         \* the Scanner: source, tokens, stream, start, current, line
    pc,           \* the loop of the scanner that runs next
    nesting,      \* the local of scan_multiline_comment
    panic,        \* the panic that ended the scan, if any
    lexeme_line,  \* history: the value of line when start was last set
    lexemes       \* history: for each token, its start, lexeme_line, end

vars == <<self, pc, nesting, panic, lexeme_line, lexemes>>

NoPanic == [kind |-> "None", line |-> 0]

\* Scanner::new.  stream is the number of characters the Peekable<Chars>
\* iterator has yielded.
new(source) ==
    [source |-> source, tokens |-> <<>>, stream |-> 0,
     start |-> 0, current |-> 0, line |-> 1]

peek(s) ==
    IF s.stream < Len(s.source) THEN s.source[s.stream + 1] ELSE None

\* The scanner after next(); what next() returns is peek of the scanner
\* before it.  current is counted up even when the stream is exhausted.
next(s) ==
    [s EXCEPT !.current = @ + 1,
              !.stream = IF @ < Len(s.source) THEN @ + 1 ELSE @]

\* A scanner that never sees the end of the input.
is_eof_never(s) == FALSE

is_eof(s) == peek(s) = None

\* A token put at the front of the list.
add_token_in_front(s, token) ==
    [s EXCEPT !.tokens =
        <<[kind |-> token.kind, value |-> token.value, line |-> s.line]>>
            \o @]

add_token(s, token) ==
    [s EXCEPT !.tokens =
        Append(@, [kind |-> token.kind, value |-> token.value,
                   line |-> s.line])]

\* An expect_next that leaves the matched character unread.
expect_next_unread(s, a) == [ok |-> peek(s) = a, self |-> s]

\* expect_next(a): what it returns (ok) and the scanner after it.
expect_next(s, a) ==
    IF peek(s) = a
    THEN [ok |-> TRUE, self |-> next(s)]
    ELSE [ok |-> FALSE, self |-> s]

\* A scanner that does not count a newline.
increment_line_skipped(s) == s

\* self.line += 1
increment_line(s) == [s EXCEPT !.line = @ + 1]

Init ==
    /\ self \in {new(source) : source \in Sources}
    /\ pc = "scan_tokens"
    /\ nesting = 0
    /\ panic = NoPanic
    /\ lexeme_line = 1
    /\ lexemes = <<>>

\* An error that is recorded while the scan goes on.
Panic_and_continue(kind, s) ==
    /\ self' = s
    /\ pc' = "scan_tokens"
    /\ panic' = [kind |-> kind, line |-> s.line]
    /\ UNCHANGED nesting

\* panic!(...) and the panics of the standard library: the scan is over.
Panic(kind, s) ==
    /\ self' = s
    /\ pc' = "panicked"
    /\ panic' = [kind |-> kind, line |-> s.line]
    /\ UNCHANGED nesting

\* The scanner goes on at location p.
Goto(p, s) ==
    /\ self' = s
    /\ pc' = p
    /\ UNCHANGED panic


\* ------------------------------------------------------------ the actions

\* The end of scan_string, once the closing quote is the next character:
\* the slice, add_token and the next() that consumes the closing quote.
finish_string(s) ==
    LET value == slice(s.source, s.start + 1, s.current)
    IN  IF value.ok
        THEN Goto("scan_tokens",
                  next(add_token(s, Literal("String", value.text))))
             /\ UNCHANGED nesting
        ELSE Panic("SliceIndex", s)

\* The end of scan_number: the slice, parse::<f64>().unwrap() and add_token.
finish_number(s) ==
    LET text == slice(s.source, s.start, s.current)
    IN  IF ~text.ok
        THEN Panic("SliceIndex", s)
        ELSE IF ~parse_f64(text.text).ok
        THEN Panic("ParseFloat", s)
        ELSE Goto("scan_tokens",
                  add_token(s, Literal("Number", parse_f64(text.text).value)))
             /\ UNCHANGED nesting

\* The end of scan_identifier: the slice, the keyword match and add_token.
finish_identifier(s) ==
    LET value == slice(s.source, s.start, s.current)
    IN  IF value.ok
        THEN Goto("scan_tokens",
                  add_token(s, keyword_or_identifier(value.text)))
             /\ UNCHANGED nesting
        ELSE Panic("SliceIndex", s)

\* The match of scan_tokens on the character c just read; s is the scanner
\* after next() and the assignment to start.
dispatch(c, s) ==
    IF c \in DOMAIN Punctuation
    THEN Goto("scan_tokens", add_token(s, Simple(Punctuation[c])))
         /\ UNCHANGED nesting
    ELSE IF c \in DOMAIN Operators
    THEN LET e == expect_next(s, "=")
             tok == IF e.ok THEN Operators[c][2] ELSE Operators[c][1]
         IN  Goto("scan_tokens", add_token(e.self, Simple(tok)))
             /\ UNCHANGED nesting
    ELSE IF c = "/"
    THEN LET line_comment == expect_next(s, "/")
             block_comment == expect_next(s, "*")
         IN  IF line_comment.ok
             THEN Goto("line_comment", line_comment.self)
                  /\ UNCHANGED nesting
             ELSE IF block_comment.ok
             THEN Goto("scan_multiline_comment", block_comment.self)
                  /\ nesting' = 0
             ELSE Goto("scan_tokens", add_token(s, Simple("Slash")))
                  /\ UNCHANGED nesting
    ELSE IF c = QUOTE
    THEN Goto("scan_string", s) /\ UNCHANGED nesting
    ELSE IF is_digit(c)
    THEN Goto("scan_number", s) /\ UNCHANGED nesting
    ELSE IF is_alpha(c)
    THEN Goto("scan_identifier", s) /\ UNCHANGED nesting
    ELSE IF c \in {" ", "\r", "\t"}
    THEN Goto("scan_tokens", s) /\ UNCHANGED nesting
    ELSE IF c = NL
    THEN Goto("scan_tokens", increment_line(s)) /\ UNCHANGED nesting
    ELSE Panic("UnexpectedCharacter", s)

\* The history variables: the line at which the lexeme being scanned began,
\* and, for every token emitted, the start of its lexeme, that line and the
\* number of characters read once the lexeme is consumed (its end).
History ==
    /\ lexeme_line' =
          IF pc = "scan_tokens" /\ peek(self) # None
          THEN self.line
          ELSE lexeme_line
    /\ lexemes' =
          IF Len(self'.tokens) > Len(self.tokens)
          THEN Append(lexemes, [start |-> self'.start, line |-> lexeme_line',
                                end |-> self'.stream])
          ELSE lexemes

\* One iteration of the loop of scan_tokens, up to the call of a scanner
\* of literals or comments; at the end of the input, the return.
\* An end-of-input token appended before the list is returned.
at_end_of_input_eof_token(s) ==
    Goto("returned", add_token(s, Simple("Eof"))) /\ UNCHANGED nesting

\* The outer loop ends when next() yields None, and self.tokens is returned
\* as it is.
at_end_of_input(s) == Goto("returned", s) /\ UNCHANGED nesting

ScanTokens ==
    /\ pc = "scan_tokens"
    /\ LET c == peek(self)
           s == next(self)
       IN  IF c = None
           THEN at_end_of_input(s)
           ELSE dispatch(c, [s EXCEPT !.start = s.current - 1])
    /\ History

\* One iteration of the loop of a line comment.
\* A line comment that only the end of the input ends.
line_comment_over_at_eof(c) == c = None

\* `while let Some(c) = self.peek()` with `if c == '\n' { break; }`: the
\* comment is over at the end of the input and in front of a newline.
line_comment_over(c) == c = None \/ c = NL

LineComment ==
    /\ pc = "line_comment"
    /\ LET c == peek(self)
       IN  IF line_comment_over(c)
           THEN Goto("scan_tokens", self)
           ELSE Goto("line_comment", next(self))
    /\ UNCHANGED nesting
    /\ History

\* A block comment that any closing ends, nested or not.
comment_closed_at_any_depth(matched, depth) == matched

\* Whether a "*" read inside a block comment ends it: expect_next('/') has
\* matched and nesting is 0.
comment_closed(matched, depth) == matched /\ depth = 0

\* One iteration of the loop of scan_multiline_comment.
\* An end of input inside a block comment reported as an error.
comment_unterminated(s) == Panic("UnterminatedComment", s)

\* `None => break` in scan_multiline_comment: the loop is left at the end of
\* the input and the outer loop goes on.
comment_at_eof(s) == Goto("scan_tokens", s) /\ UNCHANGED nesting

ScanMultilineComment ==
    /\ pc = "scan_multiline_comment"
    /\ LET c == peek(self)
           s == next(self)
           open == expect_next(s, "*")
           close == expect_next(s, "/")
       IN  IF c = None
           THEN comment_at_eof(s)
           ELSE IF c = "/"
           THEN /\ Goto("scan_multiline_comment", open.self)
                /\ nesting' = IF open.ok THEN nesting + 1 ELSE nesting
           ELSE IF c = "*"
           THEN IF comment_closed(close.ok, nesting)
                THEN Goto("scan_tokens", close.self) /\ UNCHANGED nesting
                ELSE /\ Goto("scan_multiline_comment", close.self)
                     /\ nesting' = IF close.ok THEN nesting - 1 ELSE nesting
           ELSE Goto("scan_multiline_comment", s) /\ UNCHANGED nesting
    /\ History

\* One iteration of the loop of scan_string; once it is left, the rest of
\* scan_string.
ScanString ==
    /\ pc = "scan_string"
    /\ LET c == peek(self)
       IN  IF c = None \/ c = QUOTE
           THEN IF is_eof(self)
                THEN Panic("UnterminatedString", self)
                ELSE finish_string(self)
           ELSE IF c = NL
           THEN Goto("scan_string", next(increment_line(self)))
                /\ UNCHANGED nesting
           ELSE Goto("scan_string", next(self)) /\ UNCHANGED nesting
    /\ History

\* Whether the character after the next one is a digit: the peek of the
\* cloned stream of scan_number, which leaves the scanner as it is.
digit_after_next(s) ==
    /\ s.stream + 1 < Len(s.source)
    /\ is_digit(s.source[s.stream + 2])

\* One iteration of the first loop of scan_number; once it is left, the
\* lookahead for a fraction.
ScanNumber ==
    /\ pc = "scan_number"
    /\ LET c == peek(self)
       IN  IF is_digit(c)
           THEN Goto("scan_number", next(self)) /\ UNCHANGED nesting
           ELSE IF c = "." /\ digit_after_next(self)
           THEN Goto("scan_fraction", next(self)) /\ UNCHANGED nesting
           ELSE finish_number(self)
    /\ History

\* One iteration of the second loop of scan_number; once it is left, the
\* rest of scan_number.
ScanFraction ==
    /\ pc = "scan_fraction"
    /\ IF is_digit(peek(self))
       THEN Goto("scan_fraction", next(self)) /\ UNCHANGED nesting
       ELSE finish_number(self)
    /\ History

\* One iteration of the loop of scan_identifier; once it is left, the rest
\* of scan_identifier.
ScanIdentifier ==
    /\ pc = "scan_identifier"
    /\ IF is_alpha_numeric(peek(self))
       THEN Goto("scan_identifier", next(self)) /\ UNCHANGED nesting
       ELSE finish_identifier(self)
    /\ History

Next ==
    \/ ScanTokens
    \/ LineComment
    \/ ScanMultilineComment
    \/ ScanString
    \/ ScanNumber
    \/ ScanFraction
    \/ ScanIdentifier

Spec == Init /\ [][Next]_vars

\* scan_tokens runs on one thread from its call to its return or panic: a
\* step that can be taken is taken.
FairSpec == Spec /\ WF_vars(Next)

\* ------------------------------------------------------------ properties

NewlinesIn(text) == Cardinality({i \in 1..Len(text) : text[i] = NL})

\* The characters the stream has yielded so far.
Consumed == SubSeq(self.source, 1, self.stream)

Last(seq) == seq[Len(seq)]

\* The characters of a string literal strictly between its opening quote,
\* the character with (0-based) index first of text, and the first quote
\* after it (or the end of text).
StringBody(text, first) ==
    LET quotes == {i \in (first + 2)..Len(text) : text[i] = QUOTE}
        close == IF quotes = {} THEN Len(text) + 1
                 ELSE CHOOSE i \in quotes : \A j \in quotes : i <= j
    IN  SubSeq(text, first + 2, close - 1)

\* C1: in every state of a scan, line is 1 plus the number of newline
\* characters consumed so far, wherever the newline was consumed (at a
\* lexeme boundary, inside a string literal or inside a block comment).
\* The code does not count the newlines of a block comment.
C1_LineCountsConsumedNewlines ==
    self.line = 1 + NewlinesIn(Consumed)

\* C2, as stated: the line of every token of the output is the line on
\* which its lexeme begins, the value line had when the first character of
\* the lexeme was read.
C2_TokenLineIsLexemeStartLine ==
    \A i \in 1..Len(self.tokens) : self.tokens[i].line = lexemes[i].line

\* C2, amended: the line of every token is the value of line when the
\* token is emitted: the value line had at the first character of the
\* lexeme, plus, for a String token, the number of newlines inside the
\* literal.
C2_TokenLineIsLineAtEmission ==
    \A i \in 1..Len(self.tokens) :
        self.tokens[i].line =
            lexemes[i].line +
                (IF self.tokens[i].kind = "String"
                 THEN NewlinesIn(StringBody(self.source, lexemes[i].start))
                 ELSE 0)

\* A String token whose literal holds a newline, followed by another token.
C2_Witness ==
    \E i \in 1..Len(self.tokens) :
        /\ self.tokens[i].kind = "String"
        /\ NewlinesIn(StringBody(self.source, lexemes[i].start)) > 0
        /\ i < Len(self.tokens)

\* C3: a terminated string literal that spans n newlines and whose opening
\* quote was read with line = L produces a String token whose line is
\* L + n, and line is L + n after it, for the tokens that follow.
C3_StringTokenOnClosingLine ==
    [][(pc = "scan_string" /\ peek(self) = QUOTE) =>
          LET n == NewlinesIn(StringBody(self.source, self.start))
          IN  /\ Len(self'.tokens) = Len(self.tokens) + 1
              /\ Last(self'.tokens).kind = "String"
              /\ Last(self'.tokens).line = lexeme_line + n
              /\ self'.line = lexeme_line + n]_vars

\* The kind the claim names for operator c, followed by "=" or not.
MunchedKind(c, followed) ==
    CASE c = "!" -> IF followed THEN "BangEqual" ELSE "Bang"
      [] c = "=" -> IF followed THEN "EqualEqual" ELSE "Equal"
      [] c = "<" -> IF followed THEN "LessEqual" ELSE "Less"
      [] c = ">" -> IF followed THEN "GreaterEqual" ELSE "Greater"

\* C4: when one of ! = < > is read at a lexeme boundary and the next unread
\* character is "=", exactly one two-character token is emitted and both
\* characters are consumed; otherwise exactly one one-character token is
\* emitted and the following character is left for the next iteration.
C4_MaximalMunch ==
    [][(pc = "scan_tokens" /\ peek(self) \in {"!", "=", "<", ">"}) =>
          LET followed ==
                  /\ self.stream + 2 <= Len(self.source)
                  /\ self.source[self.stream + 2] = "="
          IN  /\ self'.tokens =
                    Append(self.tokens,
                           [kind |-> MunchedKind(peek(self), followed),
                            value |-> <<>>, line |-> self.line])
              /\ self'.stream = self.stream + (IF followed THEN 2 ELSE 1)
              /\ pc' = "scan_tokens"]_vars

\* "===" has been scanned: EqualEqual, then Equal.
C4_Witness ==
    /\ pc = "returned"
    /\ self.source = <<"=", "=", "=">>
    /\ Len(self.tokens) = 2
    /\ self.tokens[1].kind = "EqualEqual"
    /\ self.tokens[2].kind = "Equal"

\* The index of the last character of the maximal run of digits of text
\* that begins at index i (i - 1 when there is none).
RECURSIVE DigitRunEnd(_, _)
DigitRunEnd(text, i) ==
    IF i <= Len(text) /\ is_digit(text[i])
    THEN DigitRunEnd(text, i + 1)
    ELSE i - 1

\* The index of the last character of the number lexeme of text whose
\* first digit has (0-based) index first: a maximal run of digits, with
\* "." and a further maximal run only when a digit follows the ".".
NumberEnd(text, first) ==
    LET e == DigitRunEnd(text, first + 1)
    IN  IF e + 2 <= Len(text) /\ text[e + 1] = "." /\ is_digit(text[e + 2])
        THEN DigitRunEnd(text, e + 2)
        ELSE e

\* C5: scan_number consumes exactly the number lexeme (a maximal run of
\* digits, extended by "." and a further maximal run of digits only when a
\* digit follows the "."), its lookahead consumes nothing, one Number token
\* with the value of the lexeme is emitted, and a "." left unconsumed is
\* made a Dot by the next iteration of scan_tokens.
C5_NumberLexeme ==
    [][/\ (/\ pc \in {"scan_number", "scan_fraction"}
           /\ pc' \notin {"scan_number", "scan_fraction"}) =>
             LET end == NumberEnd(self.source, self.start)
                 lexeme == SubSeq(self.source, self.start + 1, end)
             IN  /\ self.stream = end
                 /\ self'.stream = end
                 /\ pc' = "scan_tokens"
                 /\ self'.tokens =
                       Append(self.tokens,
                              [kind |-> "Number",
                               value |-> parse_f64(lexeme).value,
                               line |-> self.line])
       /\ (pc = "scan_tokens" /\ peek(self) = ".") =>
             /\ self'.stream = self.stream + 1
             /\ self'.tokens =
                   Append(self.tokens,
                          [kind |-> "Dot", value |-> <<>>,
                           line |-> self.line])]_vars

\* Whether text has "/*" (an opening) or "*/" (a closing) at index i.
OpensAt(text, i) == i < Len(text) /\ text[i] = "/" /\ text[i + 1] = "*"

ClosesAt(text, i) == i < Len(text) /\ text[i] = "*" /\ text[i + 1] = "/"

\* Reading text from index i at depth d, as the claim has it (each further
\* opening raises the depth, each closing met at depth > 0 lowers it, a
\* closing met at depth 0 ends the comment): the depth once the characters
\* up to index j are read.
RECURSIVE DepthAfter(_, _, _, _)
DepthAfter(text, i, j, d) ==
    IF i > j THEN d
    ELSE IF OpensAt(text, i) THEN DepthAfter(text, i + 2, j, d + 1)
    ELSE IF ClosesAt(text, i) THEN DepthAfter(text, i + 2, j, d - 1)
    ELSE DepthAfter(text, i + 1, j, d)

\* The index of the last character of the comment whose body begins at
\* index i, read at depth d: the "/" of the closing met at depth 0; 0 when
\* text ends before it.
RECURSIVE CommentEnd(_, _, _)
CommentEnd(text, i, d) ==
    IF i > Len(text) THEN 0
    ELSE IF OpensAt(text, i) THEN CommentEnd(text, i + 2, d + 1)
    ELSE IF ClosesAt(text, i)
    THEN IF d = 0 THEN i + 1 ELSE CommentEnd(text, i + 2, d - 1)
    ELSE CommentEnd(text, i + 1, d)

\* C6: block comments nest.  Inside a block comment nesting is the depth of
\* the openings and closings read so far and is never negative; the comment
\* is left, with text still to read, only by the closing met at depth 0,
\* with no token emitted for it, and scan_tokens goes on with the character
\* right after that closing.
C6_BlockCommentsNest ==
    [][/\ pc' = "scan_multiline_comment" =>
             LET body == self'.start + 3
                 end == CommentEnd(self'.source, body, 0)
             IN  /\ nesting' =
                       DepthAfter(self'.source, body, self'.stream, 0)
                 /\ nesting' >= 0
                 /\ end = 0 \/ self'.stream < end
       /\ (pc = "scan_multiline_comment" /\ pc' # pc) =>
             LET end == CommentEnd(self.source, self.start + 3, 0)
             IN  /\ pc' = "scan_tokens"
                 /\ self'.tokens = self.tokens
                 /\ IF end = 0
                    THEN self'.stream = Len(self.source)
                    ELSE self'.stream = end]_vars

\* A nested comment has been left by its outer closing and the character
\* right after it has become a token.
C6_Witness ==
    /\ pc = "returned"
    /\ self.source = <<"/", "*", "/", "*", "*", "/", "*", "/", "*">>
    /\ Len(self.tokens) = 1
    /\ self.tokens[1].kind = "Star"
    /\ lexemes[1].start = 8

\* C7: for a terminated string literal the value of the String token is
\* exactly the characters strictly between the opening quote and the first
\* quote after it (backslashes and newlines kept, no escape processing),
\* and the closing quote is consumed.
C7_StringValueIsBody ==
    [][(pc = "scan_string" /\ peek(self) = QUOTE) =>
          /\ self'.tokens =
                Append(self.tokens,
                       [kind |-> "String",
                        value |-> StringBody(self.source, self.start),
                        line |-> self.line])
          /\ self'.stream = self.stream + 1
          /\ pc' = "scan_tokens"]_vars

\* C8: an identifier lexeme is the maximal run of letters, digits and
\* underscores that begins at a letter or an underscore; one token is
\* emitted for it: the keyword kind when the whole lexeme is a reserved
\* word, otherwise an Identifier whose name is the lexeme text.
C8_KeywordOrIdentifier ==
    [][(pc = "scan_identifier" /\ ~is_alpha_numeric(peek(self))) =>
          LET lexeme == SubSeq(self.source, self.start + 1, self.stream)
          IN  /\ is_alpha(lexeme[1])
              /\ \A i \in 1..Len(lexeme) : is_alpha_numeric(lexeme[i])
              /\ self'.stream = self.stream
              /\ pc' = "scan_tokens"
              /\ self'.tokens =
                    Append(self.tokens,
                           IF lexeme \in DOMAIN Keywords
                           THEN [kind |-> Keywords[lexeme], value |-> <<>>,
                                 line |-> self.line]
                           ELSE [kind |-> "Identifier", value |-> lexeme,
                                 line |-> self.line])]_vars

\* C9: a string literal whose closing quote is not found before the input
\* ends raises UnterminatedString, tagged with line at the end of the input
\* (the value of line at the opening quote plus the number of newlines
\* inside the unterminated literal), and no String token is emitted for it;
\* scan_string raises it in no other case.
C9_UnterminatedString ==
    [][/\ (pc = "scan_string" /\ peek(self) = None) =>
             /\ pc' = "panicked"
             /\ panic' =
                   [kind |-> "UnterminatedString",
                    line |-> lexeme_line +
                        NewlinesIn(StringBody(self.source, self.start))]
             /\ self'.tokens = self.tokens
       /\ pc' = "scan_string" =>
             /\ self'.source[self'.start + 1] = QUOTE
             /\ \A i \in (self'.start + 2)..self'.stream :
                    self'.source[i] # QUOTE
       /\ (panic'.kind = "UnterminatedString" /\ panic.kind = "None") =>
             /\ pc = "scan_string"
             /\ self.stream = Len(self.source)
             /\ panic'.line = self.line]_vars

\* An unterminated string literal that holds a newline has raised the
\* error, after a token was emitted.
C9_Witness ==
    /\ pc = "panicked"
    /\ panic = [kind |-> "UnterminatedString", line |-> 2]
    /\ Len(self.tokens) = 1
    /\ lexeme_line = 1

\* The characters that may begin a lexeme, and the ones that are skipped.
Recognized ==
    {"(", ")", "{", "}", ",", ".", "-", "+", ";", "*", "!", "=", "<", ">",
     "/", QUOTE, " ", "\r", "\t", NL}
        \cup Digits \cup Lower \cup Upper \cup {"_"}

\* C10: a character read at a lexeme boundary raises UnexpectedCharacter,
\* tagged with line, exactly when it is none of the punctuation and
\* operator characters, the quote, a digit, an ASCII letter, the
\* underscore, space, carriage return, tab and newline; the error is raised
\* nowhere else.
C10_UnexpectedCharacter ==
    [][/\ (pc = "scan_tokens" /\ peek(self) # None) =>
             IF peek(self) \in Recognized
             THEN panic'.kind # "UnexpectedCharacter"
             ELSE /\ pc' = "panicked"
                  /\ panic' =
                        [kind |-> "UnexpectedCharacter", line |-> self.line]
                  /\ self'.tokens = self.tokens
       /\ (panic'.kind = "UnexpectedCharacter" /\ panic.kind = "None") =>
             /\ pc = "scan_tokens"
             /\ peek(self) \notin Recognized \cup {None}]_vars

\* The two-byte letter, read at a lexeme boundary on line 2, has raised
\* the error.
C10_Witness ==
    /\ pc = "panicked"
    /\ panic = [kind |-> "UnexpectedCharacter", line |-> 2]
    /\ Last(Consumed) = NonAscii

\* The two lexical errors of the scanner.
LexicalErrors == {"UnexpectedCharacter", "UnterminatedString"}

\* C11: fail-fast.  Once a lexical error is raised the scan is halted for
\* good: no step follows (no character is consumed, no token appended, no
\* second error raised) and scan_tokens does not return, so the tokens
\* accumulated before the error are not delivered.
C11_FailFast ==
    panic.kind \in LexicalErrors =>
        /\ pc = "panicked"
        /\ ~ENABLED Next

\* An error was raised after a token was emitted and before the end of the
\* input.
C11_Witness ==
    /\ panic.kind \in LexicalErrors
    /\ Len(self.tokens) > 0
    /\ self.stream < Len(self.source)

\* The lexeme the scanner last began is a block comment that the input ends
\* inside of, at whatever depth, and its opening is consumed.
InUnterminatedComment ==
    /\ self.stream >= self.start + 2
    /\ OpensAt(self.source, self.start + 1)
    /\ CommentEnd(self.source, self.start + 3, 0) = 0

\* C12: if the input ends inside a block comment, at any nesting depth, no
\* error is raised, the scan goes on to return normally, and the tokens are
\* exactly those emitted before the comment's opening: one per lexeme, each
\* beginning before the opening, none made of the unterminated remainder.
C12_UnterminatedComment ==
    InUnterminatedComment =>
        /\ panic = NoPanic
        /\ pc \in {"scan_multiline_comment", "scan_tokens", "returned"}
        /\ pc = "scan_tokens" => self.stream = Len(self.source)
        /\ pc # "returned" => ENABLED Next
        /\ Len(lexemes) = Len(self.tokens)
        /\ \A i \in 1..Len(lexemes) : lexemes[i].end <= self.start

\* The scan returned a token emitted before a comment left open at depth 1.
C12_Witness ==
    /\ InUnterminatedComment
    /\ pc = "returned"
    /\ nesting = 1
    /\ Len(self.tokens) = 1

\* The token list after a step is the list before it, or that list with one
\* token more at its end.
AppendOnly ==
    \/ self'.tokens = self.tokens
    \/ /\ Len(self'.tokens) = Len(self.tokens) + 1
       /\ SubSeq(self'.tokens, 1, Len(self.tokens)) = self.tokens

\* The lexemes of the tokens begin at strictly increasing offsets.
InSourceOrder(l) ==
    \A i, j \in 1..Len(l) : i < j => l[i].start < l[j].start

\* C13: the output is append-only and in source order.  Every step leaves the
\* token list unchanged or extends it by one token at its end, and of any two
\* tokens the earlier one's lexeme begins at a strictly smaller offset.
C13_AppendOnlyInSourceOrder ==
    [][/\ AppendOnly
       /\ Len(lexemes') = Len(self'.tokens)
       /\ InSourceOrder(lexemes')]_vars

\* Three tokens were emitted.
C13_Witness ==
    /\ Len(self.tokens) = 3
    /\ Len(lexemes) = 3
    /\ lexemes[1].start < lexemes[2].start
    /\ lexemes[2].start < lexemes[3].start

\* The index of the first newline of text at or after index i, Len(text) + 1
\* when there is none.
RECURSIVE LineEnd(_, _)
LineEnd(text, i) ==
    IF i > Len(text) \/ text[i] = NL THEN i ELSE LineEnd(text, i + 1)

\* text from index i on is made of spaces, carriage returns, tabs, newlines
\* and comments only (a block comment may be left open by the end of text).
RECURSIVE BlankFrom(_, _)
BlankFrom(text, i) ==
    IF i > Len(text) THEN TRUE
    ELSE IF text[i] \in {" ", "\r", "\t", NL} THEN BlankFrom(text, i + 1)
    ELSE IF i < Len(text) /\ text[i] = "/" /\ text[i + 1] = "/"
    THEN BlankFrom(text, LineEnd(text, i + 2))
    ELSE IF OpensAt(text, i)
    THEN LET e == CommentEnd(text, i + 2, 0)
         IN  e = 0 \/ BlankFrom(text, e + 1)
    ELSE FALSE

\* C14: there is no end-of-input sentinel.  A source that is empty or made
\* of whitespace and comments only never gets a token (and no error); when
\* scan_tokens returns, every token has a lexeme of its own in the source
\* and nothing but whitespace and comments follows the lexeme of the last
\* token (the whole source is such when there is no token).
C14_NoEndOfInputToken ==
    /\ BlankFrom(self.source, 1) => self.tokens = <<>> /\ panic = NoPanic
    /\ pc = "returned" =>
        /\ Len(lexemes) = Len(self.tokens)
        /\ IF self.tokens = <<>>
           THEN BlankFrom(self.source, 1)
           ELSE /\ Last(lexemes).start < Last(lexemes).end
                /\ Last(lexemes).end <= Len(self.source)
                /\ BlankFrom(self.source, Last(lexemes).end + 1)

\* scan_tokens returned tokens for a source that goes on, after its last
\* lexeme, with whitespace or a comment.
C14_Witness ==
    /\ pc = "returned"
    /\ self.tokens # <<>>
    /\ Last(lexemes).end < Len(self.source)

\* The loops of the scanner, by position.
Loops ==
    {"scan_tokens", "line_comment", "scan_multiline_comment", "scan_string",
     "scan_number", "scan_fraction", "scan_identifier"}

\* A step is an iteration that stays in its loop, or an iteration of the
\* outer loop that found a character.
Iteration ==
    \/ pc' = pc
    \/ pc = "scan_tokens" /\ pc' # "returned"

\* What is left to do: the characters left to read, then the inner loop to
\* leave, then the return.
Measure ==
    3 * (Len(self.source) - self.stream)
        + (IF pc = "scan_tokens" THEN 1 ELSE IF pc \in Loops THEN 2 ELSE 0)

\* Every iteration of every loop consumes at least one character and every
\* step lowers Measure: no loop spins.
C15_Progress ==
    [][/\ Iteration => self'.stream > self.stream
       /\ Measure' < Measure]_vars

\* Measure is never negative.
C15_MeasureBounded == Measure >= 0

\* C15: for every finite source scan_tokens terminates, by returning or by
\* raising a lexical error, since every iteration of every loop consumes at
\* least one character.
C15_Terminates ==
    /\ C15_Progress
    /\ []C15_MeasureBounded
    /\ <>(pc = "returned" \/ panic.kind \in LexicalErrors)

\* C16: in every reachable state, from construction through the read that
\* detects the end of the input (inside a block comment too),
\* start <= current <= length(source), current being the count next() keeps.
C16_CursorWithinSource ==
    /\ self.start <= self.current
    /\ self.current <= Len(self.source)

\* The character after the one about to be read is neither "/" nor "*".
LoneSlashAhead ==
    /\ peek(self) = "/"
    /\ \/ self.stream + 2 > Len(self.source)
       \/ self.source[self.stream + 2] \notin {"/", "*"}

\* C17: a line comment produces no token and leaves line alone; it consumes
\* the characters up to, not including, the next newline or the end of the
\* input; the outer loop then consumes that newline in a step that raises
\* line by exactly one and emits nothing, so that a token after the comment
\* carries the next line.  A "/" followed by neither "/" nor "*" emits
\* exactly one Slash token and leaves the following character unconsumed.
C17_LineCommentAndSlash ==
    [][/\ pc = "line_comment" =>
            /\ self'.tokens = self.tokens
            /\ self'.line = self.line
            /\ panic' = NoPanic
            /\ pc' \in {"line_comment", "scan_tokens"}
            /\ pc' = "scan_tokens" =>
                  self'.stream = LineEnd(self.source, self.start + 1) - 1
       /\ pc' = "line_comment" =>
            self'.stream < LineEnd(self.source, self'.start + 1)
       /\ pc = "scan_tokens" /\ peek(self) = NL =>
            /\ self'.line = self.line + 1
            /\ self'.stream = self.stream + 1
            /\ self'.tokens = self.tokens
            /\ pc' = "scan_tokens"
       /\ pc = "scan_tokens" /\ LoneSlashAhead =>
            /\ Len(self'.tokens) = Len(self.tokens) + 1
            /\ Last(self'.tokens).kind = "Slash"
            /\ Last(self'.tokens).line = self.line
            /\ self'.stream = self.stream + 1
            /\ pc' = "scan_tokens"]_vars

\* After a line comment and its newline a lone "/" gave the only token, a
\* Slash on line 2, and the character after it is not consumed.
C17_Witness ==
    /\ Len(self.source) > 2
    /\ self.source[1] = "/"
    /\ self.source[2] = "/"
    /\ Len(self.tokens) = 1
    /\ self.tokens[1].kind = "Slash"
    /\ self.tokens[1].line = 2
    /\ pc = "scan_tokens"
    /\ self.stream < Len(self.source)
    /\ self.stream = lexemes[1].end

\* The characters consumed for the lexeme of token i.
LexemeText(i) ==
    SubSeq(self.source, lexemes[i].start + 1, lexemes[i].end)

\* C18: start and current, which count the characters read, select the
\* right text when they slice the source.  For any source, one with a
\* multi-byte character in an earlier comment or string or in the string
\* itself included, the slice never fails, and the payload of every String,
\* Number and Identifier token is the characters consumed for its lexeme
\* (without the quotes for a String, as a number for a Number).
C18_OffsetsSelectLexeme ==
    /\ panic.kind # "SliceIndex"
    /\ \A i \in 1..Len(self.tokens) :
          LET token == self.tokens[i]
              text == LexemeText(i)
          IN  /\ token.kind = "String" =>
                    token.value = SubSeq(text, 2, Len(text) - 1)
              /\ token.kind = "Identifier" => token.value = text
              /\ token.kind = "Number" =>
                    token.value = parse_f64(text).value

=============================================================================
